---- MODULE Spec2Model ----
(***************************************************************************)
(* OpcUaEndpointDiscovery (src/imports/opcua/opcuaendpointdiscovery.cpp):  *)
(* the QML element that requests the endpoints of a server through the     *)
(* backend client of an OpcUaConnection and publishes the result list and  *)
(* a status.  All slots run on the owner thread, so every handler is one   *)
(* atomic action; signals connected with direct connections run their      *)
(* slots inside the emitting handler.                                      *)
(***************************************************************************)
EXTENDS Integers, Sequences, FiniteSets, TLC

\* ---------------------------------------------------------------- bounds
\* number of discovery requests the transport accepts in one behaviour
MaxRequests == 2
\* number of backend clients the connections create in one behaviour
MaxClients == 1
\* longest endpoint list a completion delivers
MaxEndpoints == 1

\* ------------------------------------------------------------ value sets
NULL == "nullptr"

\* the OpcUaConnection objects of the application
Conns == {"connA", "connB"}

\* backend clients (QOpcUaClient objects), created in this order
ClientNames == <<"client1", "client2", "client3", "client4", "client5", "client6">>
Clients == {ClientNames[i] : i \in 1..MaxClients}

\* values of the serverUrl property (QString)
Strings == {"", "opc.tcp://a", "OPC.TCP://b"}

\* opaque endpoint descriptions; Invalid is QOpcUaEndpointDescription()
RecordNames == <<"ep1", "ep2", "ep3", "ep4">>
Records == {RecordNames[i] : i \in 1..MaxEndpoints}
Invalid == "invalid"

\* lists a completion can carry: one of every length, all records distinct
EndpointLists == {[i \in 1..n |-> RecordNames[n + 1 - i]] : n \in 0..MaxEndpoints}

\* QOpcUa::UaStatusCode values the element sets or receives
Good == "Good"
GoodCompletesAsynchronously == "GoodCompletesAsynchronously"
Uncertain == "Uncertain"
BadNotConnected == "BadNotConnected"
BadInvalidArgument == "BadInvalidArgument"
BadTimeout == "BadTimeout"
StatusCodes == {Good, GoodCompletesAsynchronously, Uncertain,
                BadNotConnected, BadInvalidArgument, BadTimeout}
\* the codes a completion reports: success, a non-bad code other than Good, a failure
CompletionCodes == {Good, Uncertain, BadTimeout}

\* OpcUaStatus::isBad(): the severity bits of the code say "bad"
isBad(code) == code \in {BadNotConnected, BadInvalidArgument, BadTimeout}

\* QUrl(const QString &): tolerant parsing lower-cases the scheme, so the URL
\* of a request is not always the string it was made from
toUrl(str) == IF str = "OPC.TCP://b" THEN "opc.tcp://b" ELSE str

\* QString::isEmpty()
isEmpty(str) == str = ""

VARIABLES
    m_serverUrl,           \* QString m_serverUrl
    m_connection,          \* OpcUaConnection *m_connection
    m_endpoints,           \* QVector<QOpcUaEndpointDescription> m_endpoints
    m_status,              \* OpcUaStatus m_status
    m_componentCompleted,  \* bool m_componentCompleted
    handlerSubs,           \* client -> connections endpointsRequestFinished -> handleEndpoints
    backendSubs,           \* connection -> connections backendChanged -> connectSignals
    requests,              \* requests the transport has accepted and not completed
    nextId,                \* number of requests issued so far
    emitted,               \* signals emitted by the last handler, in order
    seen,                  \* m_endpoints as the slots of each of these signals read it
    m_client,              \* OpcUaConnection::m_client of every connection
    defaultConnection,     \* OpcUaConnection::defaultConnection()
    nextClient,            \* number of clients created so far
    lastOp                 \* the handler that ran last, with its arguments

vars == <<m_serverUrl, m_connection, m_endpoints, m_status,
          m_componentCompleted, handlerSubs, backendSubs, requests, nextId,
          emitted, seen, m_client, defaultConnection, nextClient, lastOp>>

\* the state the handlers read and write, as one value
Obj ==
    [m_serverUrl |-> m_serverUrl, m_connection |-> m_connection,
     m_endpoints |-> m_endpoints, m_status |-> m_status,
     m_componentCompleted |-> m_componentCompleted,
     handlerSubs |-> handlerSubs, backendSubs |-> backendSubs,
     requests |-> requests, nextId |-> nextId, emitted |-> emitted,
     seen |-> seen,
     m_client |-> m_client, defaultConnection |-> defaultConnection,
     nextClient |-> nextClient]

Commit(s) ==
    /\ m_serverUrl' = s.m_serverUrl
    /\ m_connection' = s.m_connection
    /\ m_endpoints' = s.m_endpoints
    /\ m_status' = s.m_status
    /\ m_componentCompleted' = s.m_componentCompleted
    /\ handlerSubs' = s.handlerSubs
    /\ backendSubs' = s.backendSubs
    /\ requests' = s.requests
    /\ nextId' = s.nextId
    /\ emitted' = s.emitted
    /\ seen' = s.seen
    /\ m_client' = s.m_client
    /\ defaultConnection' = s.defaultConnection
    /\ nextClient' = s.nextClient

\* a handler starts with an empty signal log
Begin == [Obj EXCEPT !.emitted = <<>>, !.seen = <<>>]

\* emit: the connected slots run at once and read the members as they are now
Emit(s, sig) ==
    [s EXCEPT !.emitted = Append(@, sig), !.seen = Append(@, s.m_endpoints)]

\* ------------------------------------------------------------- handlers
RECURSIVE startRequestEndpoints(_)
RECURSIVE setConnection(_, _)

\* a connect() without Qt::UniqueConnection adds a connection every time
PlainConnection(n) == n + 1

\* connect(..., Qt::UniqueConnection): a second identical connection is refused
UniqueConnection(n) == IF n = 0 THEN 1 ELSE n

\* the default connection never looked up
connectionWithoutDefault(s) == s

\* OpcUaEndpointDiscovery::connection(): adopts the default connection when
\* none is set; the pointer it returns is m_connection of the result
connection(s) ==
    IF s.m_connection = NULL THEN setConnection(s, s.defaultConnection) ELSE s

\* connectSignals that starts a request as well
connectSignalsRestarting(s) ==
    LET s1 == connection(s)
        conn == s1.m_connection
    IN  IF conn = NULL \/ s1.m_client[conn] = NULL
        THEN s1
        ELSE startRequestEndpoints(
                 [s1 EXCEPT !.handlerSubs[s1.m_client[conn]] = UniqueConnection(@)])

\* connectSignals that makes no connection
connectSignalsNever(s) == connection(s)

connectSignals(s) ==
    LET s1 == connection(s)
        conn == s1.m_connection
    IN  IF conn = NULL \/ s1.m_client[conn] = NULL
        THEN s1
        ELSE [s1 EXCEPT !.handlerSubs[s1.m_client[conn]] = UniqueConnection(@)]

\* the call of requestEndpoints left out
requestEndpointsOmitted(s, client, url) == s

\* QOpcUaClient::requestEndpoints(url): the transport accepts the request and
\* will echo the URL in its completion
requestEndpoints(s, client, url) ==
    [s EXCEPT !.requests = @ \cup {[id |-> s.nextId + 1, client |-> client, url |-> url]},
              !.nextId = @ + 1]

\* the deferred start left out
NotCompletedIgnored(s) == FALSE

\* the m_componentCompleted guard of startRequestEndpoints
NotCompleted(s) == ~s.m_componentCompleted

\* only the connection pointer checked
NoClientUnchecked(s, conn) == conn = NULL

\* the guard of the BadNotConnected branch
NoClient(s, conn) == conn = NULL \/ s.m_client[conn] = NULL

\* the two notifications in the opposite order
NotifyStartReversed(s) == Emit(Emit(s, "statusChanged"), "endpointsChanged")

\* the notifications at the end of startRequestEndpoints
NotifyStart(s) == Emit(Emit(s, "endpointsChanged"), "statusChanged")

startRequestEndpoints(s) ==
    IF NotCompleted(s) THEN s
    ELSE IF isEmpty(s.m_serverUrl) THEN s
    ELSE LET s1 == [s EXCEPT !.m_endpoints = <<>>]
         IN  IF s1.m_connection = NULL
             THEN connection(s1)
             ELSE LET s2 == connection(s1)
                      conn == s2.m_connection
                      s3 == IF NoClient(s2, conn)
                            THEN [s2 EXCEPT !.m_status = BadNotConnected]
                            ELSE IF isEmpty(s2.m_serverUrl)
                            THEN [s2 EXCEPT !.m_status = BadInvalidArgument]
                            ELSE requestEndpoints(
                                     [s2 EXCEPT !.m_status = GoodCompletesAsynchronously],
                                     s2.m_client[conn], toUrl(s2.m_serverUrl))
                  IN  NotifyStart(s3)

setConnection(s, conn) ==
    IF conn = s.m_connection \/ conn = NULL THEN s
    ELSE LET s1 == IF s.m_connection # NULL
                   THEN [s EXCEPT !.backendSubs[s.m_connection] = 0]
                   ELSE s
             s2 == [s1 EXCEPT !.m_connection = conn]
             s3 == [s2 EXCEPT !.backendSubs[conn] = UniqueConnection(@)]
             s4 == connectSignals(s3)
         IN  startRequestEndpoints(Emit(s4, "connectionChanged"))

\* the setter without its early return
setServerUrlAlways(s, serverUrl) ==
    startRequestEndpoints(
        Emit([s EXCEPT !.m_serverUrl = serverUrl], "serverUrlChanged"))

setServerUrl(s, serverUrl) ==
    IF serverUrl = s.m_serverUrl THEN s
    ELSE startRequestEndpoints(
             Emit([s EXCEPT !.m_serverUrl = serverUrl], "serverUrlChanged"))

componentComplete(s) ==
    startRequestEndpoints([s EXCEPT !.m_componentCompleted = TRUE])

\* the check of the request URL left out
NotForLastRequestIgnored(s, requestUrl) == FALSE

\* requestUrl != m_serverUrl: QUrl::operator!= on the URL of the current string
NotForLastRequest(s, requestUrl) == requestUrl # toUrl(s.m_serverUrl)

\* the first notification emitted before the list is stored
handleEndpointsNotifyFirst(s, endpoints, statusCode, requestUrl) ==
    IF NotForLastRequest(s, requestUrl) THEN s
    ELSE LET s1 == [s EXCEPT !.m_status = statusCode]
         IN  IF isBad(s1.m_status)
             THEN Emit(s1, "statusChanged")
             ELSE Emit(Emit([Emit(s1, "endpointsChanged")
                                 EXCEPT !.m_endpoints = endpoints],
                       "countChanged"), "statusChanged")

handleEndpoints(s, endpoints, statusCode, requestUrl) ==
    IF NotForLastRequest(s, requestUrl) THEN s
    ELSE LET s1 == [s EXCEPT !.m_status = statusCode]
         IN  IF isBad(s1.m_status)
             THEN Emit(s1, "statusChanged")
             ELSE Emit(Emit(Emit([s1 EXCEPT !.m_endpoints = endpoints],
                       "endpointsChanged"), "countChanged"), "statusChanged")

\* OpcUaEndpointDiscovery::count()
count(s) == Len(s.m_endpoints)

\* what a read outside the vector can produce: the Q_ASSERT of QVector::at
\* in a debug build, any bytes in a release build
OutOfBoundsRead == {"Q_ASSERT failure", "garbage", Invalid}

\* OpcUaEndpointDiscovery::at(row): the possible results
at(s, row) ==
    IF row >= count(s) THEN {Invalid}
    ELSE IF row >= 0 THEN {s.m_endpoints[row + 1]}
    ELSE OutOfBoundsRead

\* a signal delivered to n identical connections runs the slot n times
RECURSIVE Times(_, _, _, _, _)
Times(n, s, endpoints, statusCode, requestUrl) ==
    IF n = 0 THEN s
    ELSE Times(n - 1, handleEndpoints(s, endpoints, statusCode, requestUrl),
               endpoints, statusCode, requestUrl)

RECURSIVE TimesConnectSignals(_, _)
TimesConnectSignals(n, s) ==
    IF n = 0 THEN s ELSE TimesConnectSignals(n - 1, connectSignals(s))

\* OpcUaConnection replaces its backend client: the old client is destroyed
\* (its connections and its outstanding requests go with it), then
\* backendChanged is emitted
replaceBackend(s, conn, client) ==
    LET old == s.m_client[conn]
        s1 == IF old = NULL THEN s
              ELSE [s EXCEPT !.handlerSubs[old] = 0,
                             !.requests = {r \in @ : r.client # old}]
        s2 == [s1 EXCEPT !.m_client[conn] = client,
                         !.nextClient = IF client = NULL THEN @ ELSE @ + 1]
    IN  TimesConnectSignals(s2.backendSubs[conn], s2)

\* ---------------------------------------------------------------- actions
\* the handler that ran last: its name; for setServerUrl the argument; for a
\* completion the emitting client and the number of handleEndpoints calls;
\* for at() the row and the result
Op(name) ==
    [op |-> name, url |-> "", client |-> NULL, calls |-> 0, row |-> 0,
     result |-> Invalid]

Init ==
    /\ m_serverUrl = ""
    /\ m_connection = NULL
    /\ m_endpoints = <<>>
    /\ m_status = Good
    /\ m_componentCompleted = FALSE
    /\ handlerSubs = [k \in Clients |-> 0]
    /\ backendSubs = [c \in Conns |-> 0]
    /\ requests = {}
    /\ nextId = 0
    /\ emitted = <<>>
    /\ seen = <<>>
    /\ m_client = [c \in Conns |-> NULL]
    /\ defaultConnection = NULL
    /\ nextClient = 0
    /\ lastOp = Op("construct")

\* the transport accepts at most MaxRequests requests
Bounded(s) == s.nextId <= MaxRequests

SetServerUrl(serverUrl) ==
    LET s == setServerUrl(Begin, serverUrl)
    IN  /\ Bounded(s)
        /\ Commit(s)
        /\ lastOp' = [Op("setServerUrl") EXCEPT !.url = serverUrl]

SetConnection(conn) ==
    LET s == setConnection(Begin, conn)
    IN  /\ Bounded(s)
        /\ Commit(s)
        /\ lastOp' = Op("setConnection")

\* the QML engine calls componentComplete() once
ComponentComplete ==
    /\ ~m_componentCompleted
    /\ LET s == componentComplete(Begin)
       IN  /\ Bounded(s)
           /\ Commit(s)
    /\ lastOp' = Op("componentComplete")

\* a client finishes a request and emits endpointsRequestFinished
EndpointsRequestFinished(r, endpoints, statusCode) ==
    /\ r \in requests
    /\ LET s0 == [Begin EXCEPT !.requests = @ \ {r}]
           s == Times(handlerSubs[r.client], s0, endpoints, statusCode, r.url)
       IN  Commit(s)
    /\ lastOp' = [Op("endpointsRequestFinished") EXCEPT
                     !.client = r.client, !.calls = handlerSubs[r.client]]

\* a connection creates its backend client or replaces it by a new one
BackendChanged(conn) ==
    /\ nextClient < MaxClients
    /\ Commit(replaceBackend(Begin, conn, ClientNames[nextClient + 1]))
    /\ lastOp' = Op("backendChanged")

\* a connection registers itself as the process-wide default
SetDefaultConnection(conn) ==
    /\ defaultConnection # conn
    /\ Commit([Begin EXCEPT !.defaultConnection = conn])
    /\ lastOp' = Op("setDefaultConnection")

\* an observer reads one element
At(row) ==
    /\ \E res \in at(Obj, row) :
          lastOp' = [Op("at") EXCEPT !.row = row, !.result = res]
    /\ Commit(Begin)

Rows == -1..(MaxEndpoints + 1)

Next ==
    \/ \E serverUrl \in Strings : SetServerUrl(serverUrl)
    \/ \E conn \in Conns \cup {NULL} : SetConnection(conn)
    \/ ComponentComplete
    \/ \E r \in requests, endpoints \in EndpointLists, statusCode \in CompletionCodes :
          EndpointsRequestFinished(r, endpoints, statusCode)
    \/ \E conn \in Conns : BackendChanged(conn)
    \/ \E conn \in Conns : SetDefaultConnection(conn)

Spec == Init /\ [][Next]_vars

\* the same element with an observer that reads elements between the handlers
NextAt ==
    \/ Next
    \/ \E row \in Rows : At(row)

SpecAt == Init /\ [][NextAt]_vars

\* ----------------------------------------------------------------- claims
\* what the element and the transport hold, without the logs
prog == <<m_serverUrl, m_connection, m_endpoints, m_status,
          m_componentCompleted, handlerSubs, backendSubs, requests, nextId,
          m_client, defaultConnection, nextClient>>

\* the step runs startRequestEndpoints: an effective setServerUrl, an
\* effective setConnection, or componentComplete
StartRuns ==
    \/ lastOp'.op = "setServerUrl" /\ lastOp'.url # m_serverUrl
    \/ lastOp'.op = "setConnection" /\ m_connection' # m_connection
    \/ lastOp'.op = "componentComplete"

\* the step is the completion of request r
Completes(r) ==
    /\ lastOp'.op = "endpointsRequestFinished"
    /\ r \in requests /\ r \notin requests'

\* the request the step issued, if it issued one
Issued(client, url) == [id |-> nextId + 1, client |-> client, url |-> url]

\* C1: a completion of a request that is not the most recently issued one
\* never changes m_endpoints or m_status.
C1_OnlyNewestRequestWrites ==
    [][\A r \in requests :
          (Completes(r) /\ r.id # nextId)
              => (m_endpoints' = m_endpoints /\ m_status' = m_status)]_vars

\* C2: in every reachable state m_endpoints is non-empty only if m_status is
\* exactly Good.
C2_NonEmptyOnlyIfGood == m_endpoints # <<>> => m_status = Good

\* C3: setServerUrl with the current address changes nothing, emits nothing
\* and issues no request.
C3_SameUrlIsNoOp ==
    [][(lastOp'.op = "setServerUrl" /\ lastOp'.url = m_serverUrl)
          => (UNCHANGED prog /\ emitted' = <<>>)]_vars

\* C3 witness: a completed element with a live client has had its current,
\* non-empty address set again, and the one request of the first call is
\* still the only one.
C3_Witness ==
    /\ lastOp.op = "setServerUrl" /\ lastOp.url = m_serverUrl
    /\ emitted = <<>>
    /\ ~isEmpty(m_serverUrl) /\ m_componentCompleted
    /\ m_connection # NULL /\ m_client[m_connection] # NULL
    /\ nextId = 1
    /\ requests = {[id |-> 1, client |-> m_client[m_connection],
                    url |-> toUrl(m_serverUrl)]}

\* C4: when startRequestEndpoints runs after construction with an empty
\* address, m_status becomes BadInvalidArgument, m_endpoints becomes empty and
\* no request is sent.
C4_EmptyUrlIsInvalidArgument ==
    [][(StartRuns /\ m_componentCompleted' /\ isEmpty(m_serverUrl'))
          => (/\ m_status' = BadInvalidArgument
              /\ m_endpoints' = <<>>
              /\ nextId' = nextId /\ requests' = requests)]_vars

\* C5 as stated: no request before componentComplete, and componentComplete
\* issues exactly one request, with the final address, to the client of the
\* final connection.
C5_ExactlyOneAtCompletion ==
    /\ ~m_componentCompleted => nextId = 0
    /\ lastOp.op = "componentComplete" =>
          /\ nextId = 1
          /\ requests = {[id |-> 1, client |-> m_client[m_connection],
                          url |-> toUrl(m_serverUrl)]}

\* C5 amended: no request before componentComplete; componentComplete issues
\* one request, with the final address, to the client of the final connection
\* when the address is non-empty and that connection has a client, and none
\* otherwise.
C5_DeferredStart ==
    /\ ~m_componentCompleted => (nextId = 0 /\ requests = {})
    /\ lastOp.op = "componentComplete" =>
          IF /\ ~isEmpty(m_serverUrl)
             /\ m_connection # NULL
             /\ m_client[m_connection] # NULL
          THEN /\ nextId = 1
               /\ requests = {[id |-> 1, client |-> m_client[m_connection],
                               url |-> toUrl(m_serverUrl)]}
          ELSE nextId = 0 /\ requests = {}

\* C5 witness: componentComplete has issued the one request, for an address
\* and a connection that were set during construction.
C5_Witness ==
    /\ lastOp.op = "componentComplete"
    /\ m_serverUrl = "OPC.TCP://b" /\ m_connection = "connB"
    /\ nextId = 1 /\ Cardinality(requests) = 1

\* C6: a completion delivered by a client that is not the client of the
\* current connection never changes m_endpoints or m_status.
C6_OtherConnectionIsIgnored ==
    [][\A r \in requests :
          (/\ Completes(r)
           /\ m_connection # NULL
           /\ r.client # m_client[m_connection])
              => (m_endpoints' = m_endpoints /\ m_status' = m_status)]_vars

\* the completion the step delivers is a matching one with code Good
MatchingGood(endpoints) ==
    \E r \in requests :
        /\ EndpointsRequestFinished(r, endpoints, Good)
        /\ handlerSubs[r.client] > 0
        /\ r.url = toUrl(m_serverUrl)

\* C7: a matching Good completion with N records makes count() = N and
\* m_status = Good, and afterwards (m_endpoints holds what such a completion
\* delivered) at(i) is the i-th record for 0 <= i < count() and the invalid
\* record for every other i.
C7_AtIsTotal ==
    [][/\ \A endpoints \in EndpointLists :
             MatchingGood(endpoints) =>
                 (Len(m_endpoints') = Len(endpoints) /\ m_status' = Good)
       /\ (lastOp'.op = "at" /\ m_status = Good /\ m_endpoints # <<>>) =>
             lastOp'.result =
                 IF lastOp'.row >= 0 /\ lastOp'.row < Len(m_endpoints)
                 THEN m_endpoints[lastOp'.row + 1]
                 ELSE Invalid]_vars

\* C8: the element holds exactly one connection to the completion signal of
\* the current connection's client, and a completion that client emits runs
\* handleEndpoints once.
C8_DeliveredOnce ==
    /\ (m_connection # NULL /\ m_client[m_connection] # NULL)
          => handlerSubs[m_client[m_connection]] = 1
    /\ (/\ lastOp.op = "endpointsRequestFinished"
        /\ m_connection # NULL
        /\ lastOp.client = m_client[m_connection])
          => lastOp.calls = 1

\* C8 witness: the current client has completed the second request it was
\* given, after the connection had been assigned more than once.
C8_Witness ==
    /\ lastOp.op = "endpointsRequestFinished"
    /\ m_connection # NULL
    /\ lastOp.client = m_client[m_connection]
    /\ nextId = 2 /\ requests = {}
    /\ lastOp.calls = 1
    /\ m_status = Good /\ m_endpoints # <<>>

\* C9: a change of the address to a new non-empty value, after construction
\* and with a connection that has a client, issues one request with the new
\* URL to that client and leaves m_endpoints empty and m_status
\* GoodCompletesAsynchronously.
C9_ChangeIssuesRequest ==
    [][(/\ lastOp'.op = "setServerUrl"
        /\ lastOp'.url # m_serverUrl /\ ~isEmpty(lastOp'.url)
        /\ m_componentCompleted
        /\ m_connection # NULL /\ m_client[m_connection] # NULL)
          => (/\ nextId' = nextId + 1
              /\ requests' = requests \cup
                     {Issued(m_client[m_connection], toUrl(lastOp'.url))}
              /\ m_endpoints' = <<>>
              /\ m_status' = GoodCompletesAsynchronously)]_vars

\* C9 witness: the second change of the address has issued the second request.
C9_Witness ==
    /\ lastOp.op = "setServerUrl"
    /\ emitted = <<"serverUrlChanged", "endpointsChanged", "statusChanged">>
    /\ nextId = 2
    /\ [id |-> 2, client |-> m_client[m_connection],
        url |-> toUrl(m_serverUrl)] \in requests
    /\ m_status = GoodCompletesAsynchronously /\ m_endpoints = <<>>

\* C10: when startRequestEndpoints runs after construction with a non-empty
\* address and a connection without a client, m_status becomes
\* BadNotConnected, m_endpoints becomes empty and no request is sent.
C10_NoClientIsNotConnected ==
    [][(/\ StartRuns
        /\ m_componentCompleted' /\ ~isEmpty(m_serverUrl')
        /\ m_connection' # NULL /\ m_client'[m_connection'] = NULL)
          => (/\ m_status' = BadNotConnected
              /\ m_endpoints' = <<>>
              /\ nextId' = nextId /\ requests' = requests)]_vars

\* C10 witness: an address change on a completed element whose connection has
\* no client has set BadNotConnected.
C10_Witness ==
    /\ lastOp.op = "setServerUrl"
    /\ emitted = <<"serverUrlChanged", "endpointsChanged", "statusChanged">>
    /\ m_componentCompleted /\ ~isEmpty(m_serverUrl)
    /\ m_connection # NULL /\ m_client[m_connection] = NULL
    /\ m_status = BadNotConnected /\ m_endpoints = <<>> /\ nextId = 0

\* how often a signal is in a log of emitted signals
Occurrences(log, sig) == Cardinality({i \in DOMAIN log : log[i] = sig})

\* the last n entries of a log
Tail2(log) ==
    IF Len(log) < 2 THEN <<>> ELSE <<log[Len(log) - 1], log[Len(log)]>>

\* the step delivers, to a connected handleEndpoints, a completion with this
\* list and code for a request whose URL is the URL of the current address
Delivers(endpoints, statusCode) ==
    /\ lastOp'.op = "endpointsRequestFinished"
    /\ \E r \in requests \ requests' :
          /\ r.url = toUrl(m_serverUrl)
          /\ handlerSubs[r.client] > 0
          /\ EndpointsRequestFinished(r, endpoints, statusCode)

\* C11: a request is issued only by a step that runs startRequestEndpoints
\* (an effective setServerUrl, an effective setConnection, componentComplete),
\* and a Bad m_status changes only in an effective setServerUrl or
\* setConnection.
C11_NoRetryBadIsFinal ==
    [][/\ nextId' # nextId => StartRuns
       /\ (isBad(m_status) /\ m_status' # m_status) =>
             \/ lastOp'.op = "setServerUrl" /\ lastOp'.url # m_serverUrl
             \/ lastOp'.op = "setConnection" /\ m_connection' # m_connection]_vars

\* C12: a completion whose request URL differs from the URL of the current
\* address leaves m_endpoints, m_status, m_serverUrl and m_connection as they
\* are and emits no signal.
C12_StaleIsDiscarded ==
    [][\A r \in requests :
          (Completes(r) /\ r.url # toUrl(m_serverUrl))
              => (/\ UNCHANGED <<m_serverUrl, m_connection, m_endpoints,
                                 m_status, m_componentCompleted, nextId>>
                  /\ emitted' = <<>>)]_vars

\* C12 witness: the completion of the first request has been handed to
\* handleEndpoints once while a second request, for another address, is
\* pending, and nothing was emitted.
C12_Witness ==
    /\ lastOp.op = "endpointsRequestFinished" /\ lastOp.calls = 1
    /\ emitted = <<>>
    /\ nextId = 2
    /\ requests = {[id |-> 2, client |-> m_client[m_connection],
                    url |-> toUrl(m_serverUrl)]}
    /\ m_status = GoodCompletesAsynchronously /\ m_endpoints = <<>>

\* C13: a matching completion with a Bad code sets m_status to that code,
\* emits only statusChanged, does not store the delivered list, and
\* m_endpoints is empty afterwards.
C13_BadLeavesEmpty ==
    [][\A endpoints \in EndpointLists, statusCode \in CompletionCodes :
          (isBad(statusCode) /\ Delivers(endpoints, statusCode))
              => (/\ m_status' = statusCode
                  /\ emitted' = <<"statusChanged">>
                  /\ m_endpoints' = <<>>)]_vars

\* C14: a matching completion with code Good stores the delivered list as
\* m_endpoints before it emits anything, and emits endpointsChanged,
\* countChanged, statusChanged, once each and in this order.
C14_GoodReplacesThenNotifies ==
    [][\A endpoints \in EndpointLists :
          Delivers(endpoints, Good)
              => (/\ m_endpoints' = endpoints
                  /\ m_status' = Good
                  /\ emitted' = <<"endpointsChanged", "countChanged",
                                  "statusChanged">>
                  /\ seen' = <<endpoints, endpoints, endpoints>>)]_vars

\* C14 witness: a Good completion has stored a non-empty list and the three
\* signals were emitted with that list in place.
C14_Witness ==
    /\ lastOp.op = "endpointsRequestFinished" /\ lastOp.calls = 1
    /\ emitted = <<"endpointsChanged", "countChanged", "statusChanged">>
    /\ m_status = Good /\ m_endpoints # <<>>
    /\ seen = <<m_endpoints, m_endpoints, m_endpoints>>

\* the step runs startRequestEndpoints past its first two checks
StartPassesGuards ==
    StartRuns /\ m_componentCompleted' /\ ~isEmpty(m_serverUrl')

\* C15 as stated: every run of startRequestEndpoints that passes the checks of
\* m_componentCompleted and of the empty address emits endpointsChanged and
\* then statusChanged.
C15_StartAlwaysNotifies ==
    [][StartPassesGuards
          => (/\ Occurrences(emitted', "endpointsChanged") = 1
              /\ Occurrences(emitted', "statusChanged") = 1
              /\ Tail2(emitted') = <<"endpointsChanged", "statusChanged">>)]_vars

\* C15 amended: such a run emits endpointsChanged and then statusChanged, once
\* each, when the element has a connection or adopts the default one; with
\* no connection and no default connection it emits neither.
C15_StartNotifiesWithConnection ==
    [][StartPassesGuards
          => IF m_connection' # NULL
             THEN /\ Occurrences(emitted', "endpointsChanged") = 1
                  /\ Occurrences(emitted', "statusChanged") = 1
                  /\ Tail2(emitted') = <<"endpointsChanged", "statusChanged">>
             ELSE /\ Occurrences(emitted', "endpointsChanged") = 0
                  /\ Occurrences(emitted', "statusChanged") = 0]_vars

\* C15 witness: an effective setConnection on a completed element with a
\* non-empty address has issued a request and emitted the two signals after
\* connectionChanged.
C15_Witness ==
    /\ lastOp.op = "setConnection"
    /\ emitted = <<"connectionChanged", "endpointsChanged", "statusChanged">>
    /\ m_componentCompleted /\ ~isEmpty(m_serverUrl)
    /\ m_status = GoodCompletesAsynchronously /\ nextId = 1

\* the step runs startRequestEndpoints past its first two checks on an
\* element without a connection
StartWithoutConnection ==
    /\ StartPassesGuards
    /\ lastOp'.op \in {"setServerUrl", "componentComplete"}
    /\ m_connection = NULL

\* C16 as stated: startRequestEndpoints without a connection adopts a
\* registered default connection, the nested run issues exactly one request;
\* without a default connection no request is issued, m_status is not
\* touched and m_connection stays unset.
C16_DefaultAdoptedOneRequest ==
    [][StartWithoutConnection
          => IF defaultConnection # NULL
             THEN /\ m_connection' = defaultConnection
                  /\ Occurrences(emitted', "connectionChanged") = 1
                  /\ nextId' = nextId + 1
             ELSE /\ m_connection' = NULL
                  /\ m_status' = m_status
                  /\ nextId' = nextId /\ requests' = requests]_vars

\* C16 amended: startRequestEndpoints without a connection adopts a
\* registered default connection and the nested run, the only one, issues one
\* request when that connection has a client and sets BadNotConnected without
\* a request when it has none; without a default connection no request is
\* issued, m_status is not touched and m_connection stays unset.
C16_DefaultAdoptedOneRun ==
    [][StartWithoutConnection
          => IF defaultConnection # NULL
             THEN /\ m_connection' = defaultConnection
                  /\ Occurrences(emitted', "connectionChanged") = 1
                  /\ Occurrences(emitted', "endpointsChanged") = 1
                  /\ Occurrences(emitted', "statusChanged") = 1
                  /\ IF m_client[defaultConnection] # NULL
                     THEN /\ nextId' = nextId + 1
                          /\ requests' = requests \cup
                                 {Issued(m_client[defaultConnection],
                                         toUrl(m_serverUrl'))}
                          /\ m_status' = GoodCompletesAsynchronously
                     ELSE /\ nextId' = nextId /\ requests' = requests
                          /\ m_status' = BadNotConnected
             ELSE /\ m_connection' = NULL
                  /\ m_status' = m_status
                  /\ nextId' = nextId /\ requests' = requests]_vars

\* C16 witness: componentComplete on an element without a connection has
\* adopted the default connection and issued the one request to its client.
C16_Witness ==
    /\ lastOp.op = "componentComplete"
    /\ emitted = <<"connectionChanged", "endpointsChanged", "statusChanged">>
    /\ m_connection # NULL /\ m_connection = defaultConnection
    /\ nextId = 1
    /\ requests = {[id |-> 1, client |-> m_client[m_connection],
                    url |-> toUrl(m_serverUrl)]}

\* C17: a backendChanged of a connection issues no request, emits nothing and
\* leaves m_serverUrl, m_connection, m_endpoints and m_status as they are;
\* the element is connected once to the completion signal of the current
\* connection's client afterwards.
C17_BackendChangedOnlyResubscribes ==
    [][lastOp'.op = "backendChanged"
          => (/\ UNCHANGED <<m_serverUrl, m_connection, m_endpoints, m_status,
                             m_componentCompleted, nextId>>
              /\ requests' \subseteq requests
              /\ emitted' = <<>>
              /\ (m_connection # NULL /\ m_client'[m_connection] # NULL)
                    => handlerSubs'[m_client'[m_connection]] = 1)]_vars

\* C17 witness: the current connection got its client after the element had
\* set BadNotConnected; the element is connected to the client and m_status
\* is still BadNotConnected.
C17_Witness ==
    /\ lastOp.op = "backendChanged" /\ emitted = <<>>
    /\ m_componentCompleted /\ ~isEmpty(m_serverUrl)
    /\ m_connection # NULL /\ m_client[m_connection] # NULL
    /\ handlerSubs[m_client[m_connection]] = 1
    /\ m_status = BadNotConnected /\ nextId = 0

\* C18: the element is connected to the completion signal of every client
\* that holds a request of it, and every completion of a request runs
\* handleEndpoints.
C18_SubscribedWhenRequested ==
    /\ \A r \in requests : handlerSubs[r.client] = 1
    /\ lastOp.op = "endpointsRequestFinished" => lastOp.calls = 1

\* C18 witness: setConnection has connected the element to the client of the
\* new connection and issued a request to it in the same call.
C18_Witness ==
    /\ lastOp.op = "setConnection"
    /\ m_connection # NULL /\ m_client[m_connection] # NULL
    /\ backendSubs[m_connection] = 1
    /\ requests = {[id |-> 1, client |-> m_client[m_connection],
                    url |-> toUrl(m_serverUrl)]}
    /\ handlerSubs[m_client[m_connection]] = 1

\* C19: every step that changes count() emits countChanged (so that count()
\* never differs from what the last countChanged announced).
C19_CountChangeIsNotified ==
    [][Len(m_endpoints') # Len(m_endpoints)
          => Occurrences(emitted', "countChanged") >= 1]_vars

\* the transport delivers a completion
Deliver ==
    \E r \in requests, endpoints \in EndpointLists, statusCode \in CompletionCodes :
        EndpointsRequestFinished(r, endpoints, statusCode)

\* a backend client is not replaced while it holds a request, so that every
\* issued request gets its one completion
NextDelivering ==
    \/ \E serverUrl \in Strings : SetServerUrl(serverUrl)
    \/ \E conn \in Conns \cup {NULL} : SetConnection(conn)
    \/ ComponentComplete
    \/ Deliver
    \/ \E conn \in Conns :
          /\ \A r \in requests : r.client # m_client[conn]
          /\ BackendChanged(conn)
    \/ \E conn \in Conns : SetDefaultConnection(conn)

\* the element on a transport that completes every request: the client's
\* backend thread finishes a pending request without waiting for the element
SpecDelivering == Init /\ [][NextDelivering]_vars /\ WF_vars(Deliver)

\* C20: when no setter is called any more, a m_status of
\* GoodCompletesAsynchronously is eventually replaced by the code of a
\* completion.
C20_PendingEnds ==
    <>[](lastOp.op \notin {"setServerUrl", "setConnection", "componentComplete"})
        => ((m_status = GoodCompletesAsynchronously)
               ~> (m_status # GoodCompletesAsynchronously))

TypeOK ==
    /\ m_serverUrl \in Strings
    /\ m_connection \in Conns \cup {NULL}
    /\ m_endpoints \in EndpointLists
    /\ m_status \in StatusCodes
    /\ nextId \in 0..MaxRequests
    /\ Len(seen) = Len(emitted)
====
